---------------------------- MODULE Spec2Model ----------------------------
(***************************************************************************)
(* The useMediaStream hook (src/unnamed/part_001, lines 1-414).            *)
(*                                                                         *)
(* A React state cell (useState) keeps the value of the last render; a     *)
(* setX(v) call only queues v, and the next render applies the queue.      *)
(* `queue` holds every cell as the queued setX calls leave it: what the    *)
(* next render shows.  A handler closes over the values of the render it   *)
(* was created in; the handlers read two cells, isStreaming and            *)
(* mediaDeviceConstraints, and the variables of these names hold the value *)
(* of the last render, which is what a handler called now reads.           *)
(* stream.current is a ref (useRef): it is read and written at once.       *)
(***************************************************************************)
EXTENDS Integers, Sequences, FiniteSets, TLC

\* ------------------------------------------------------------- bounds
MaxRequests == 2     \* host getUserMedia calls issued in one behaviour
MaxInFlight == 2     \* async handler invocations suspended at an await
MaxTracks == 2       \* tracks in a MediaStream the host returns

\* ---------------------------------------------------------- constants
IDLE == "IDLE"
PENDING == "PENDING"
FULFILLED == "FULFILLED"
REJECTED == "REJECTED"
REQUEST_STATES == {IDLE, PENDING, FULFILLED, REJECTED}

\* error values: null, the rejection of getUserMedia, the TypeError of calling
\* an absent getUserMedia, the Error built at line 213, the rejection of
\* enumerateDevices
NoError == "null"
GetUserMediaError == "getUserMedia rejected"
TypeError == "TypeError: getUserMedia is not a function"
NotSupportedError == "getUserMedia is not supported in this browser"
EnumerateDevicesError == "enumerateDevices rejected"

\* ------------------------------------------------- constraint objects
\* A JavaScript value is a scalar (leaf) or a plain object (obj) mapping
\* keys to values.
EmptyF == [k \in {} |-> ""]
Leaf(v) == [t |-> "leaf", v |-> v, f |-> EmptyF]
Obj(f) == [t |-> "obj", v |-> "", f |-> f]
EmptyObj == Obj(EmptyF)

\* deepmerge(target, source) for plain objects: every key of target is kept,
\* every key of source is taken; a key of both is merged recursively when the
\* source's value is an object, and replaced by the source's value otherwise.
\* Object.assign({}, target, source): the top level only
merge_shallow(target, source) ==
  LET tk == IF target.t = "obj" THEN DOMAIN target.f ELSE {}
      sk == DOMAIN source.f
  IN  Obj([k \in tk \cup sk |-> IF k \in sk THEN source.f[k] ELSE target.f[k]])

RECURSIVE merge(_, _)
merge(target, source) ==
  LET tk == IF target.t = "obj" THEN DOMAIN target.f ELSE {}
      sk == DOMAIN source.f
  IN  Obj([k \in tk \cup sk |->
             IF k \in sk
             THEN IF k \in tk /\ source.f[k].t = "obj"
                  THEN merge(target.f[k], source.f[k])
                  ELSE source.f[k]
             ELSE target.f[k]])

defaultMediaDeviceConstraints ==
  Obj([audio |-> Obj([deviceId |-> Leaf("")]),
       video |-> Obj([facingMode |-> Leaf("user"),
                      width |-> Leaf("1280"),
                      height |-> Leaf("720"),
                      frameRate |-> Obj([ideal |-> Leaf("60"), min |-> Leaf("10")]),
                      deviceId |-> Leaf("")])])

\* the overrides a caller passes to updateMediaDeviceConstraints
Overrides ==
  { Obj([video |-> Obj([width |-> Leaf("640")])]),
    Obj([audio |-> Obj([deviceId |-> Leaf("mic2")]),
         video |-> Obj([frameRate |-> Obj([min |-> Leaf("5")])])]) }

\* props?.mediaDeviceConstraints ?? {}
Props == { EmptyObj }

\* ------------------------------------------------------------ devices
Mic == [deviceId |-> "m1", kind |-> "audioinput", label |-> "mic"]
Spk == [deviceId |-> "s1", kind |-> "audiooutput", label |-> "speaker"]
Cam == [deviceId |-> "c1", kind |-> "videoinput", label |-> "camera"]
\* what the host's enumerateDevices() may resolve to
DeviceLists == { <<Mic, Spk, Cam>>, <<Cam, Mic>> }

\* a second microphone and a second camera, and a device whose kind is none
\* of the three the hook tells apart
Mic2 == [deviceId |-> "m2", kind |-> "audioinput", label |-> "headset"]
Cam2 == [deviceId |-> "c2", kind |-> "videoinput", label |-> "back camera"]
Unknown == [deviceId |-> "x1", kind |-> "", label |-> ""]
\* lists with several devices of one kind, with none of a kind, with none
MoreDeviceLists ==
  DeviceLists \cup
  { <<>>, <<Mic2, Cam, Mic, Spk, Cam2>>, <<Cam2, Cam>>, <<Spk>>,
    <<Unknown, Mic, Unknown>>, <<Mic, Mic2>>, <<Mic2, Mic>> }

\* lines 59-61
NoViews == [audioInputDevices |-> <<>>, audioOutputDevices |-> <<>>,
            videoInputDevices |-> <<>>]
\* the device pushed to the list of every kind whose name it starts with
pushDevice_audio(views, d) ==
  IF d.kind \in {"audioinput", "audiooutput"}
  THEN [views EXCEPT !.audioInputDevices = Append(@, d)]
  ELSE IF d.kind = "videoinput"
  THEN [views EXCEPT !.videoInputDevices = Append(@, d)]
  ELSE views
\* lines 64-70
pushDevice(views, d) ==
  IF d.kind = "audioinput"
  THEN [views EXCEPT !.audioInputDevices = Append(@, d)]
  ELSE IF d.kind = "audiooutput"
  THEN [views EXCEPT !.audioOutputDevices = Append(@, d)]
  ELSE IF d.kind = "videoinput"
  THEN [views EXCEPT !.videoInputDevices = Append(@, d)]
  ELSE views
\* devices.forEach (line 63), from the device at index i on
RECURSIVE forEachDevice(_, _, _)
forEachDevice(devices, i, views) ==
  IF i > Len(devices) THEN views
  ELSE forEachDevice(devices, i + 1, pushDevice(views, devices[i]))
\* the three lists a render computes from the devices cell
deviceViews(devices) == forEachDevice(devices, 1, NoViews)

VARIABLES
  isSupported,              \* !!navigator?.mediaDevices?.getUserMedia
  shape,                    \* host: <<audio tracks, video tracks>> of its streams
  mediaDeviceConstraints,   \* the two cells the handlers read, as of the
  isStreaming,              \*   last render
  queue,                    \* all state cells after the queued setX calls
  stream,                   \* stream.current: 0 is null, else an index of handles
  handles,                  \* host: every MediaStream getUserMedia resolved to
  gumCalls,                 \* host: number of getUserMedia calls received
  calls,                    \* handler invocations suspended at an await
  lastOp,                   \* the step taken last
  mBase, mOver, mOut        \* arguments and result of a merge call

cells == <<mediaDeviceConstraints, isStreaming>>
host == <<stream, handles, gumCalls>>
mvars == <<mBase, mOver, mOut>>
env == <<isSupported, shape>>
vars == <<env, cells, queue, host, calls, lastOp, mvars>>

\* the useState initial values (lines 42-55)
InitialCells(props) ==
  [mediaDeviceConstraints |-> merge(defaultMediaDeviceConstraints, props),
   getStreamRequest |-> IDLE,
   getMediaDevicesRequest |-> IDLE,
   isStreaming |-> FALSE,
   error |-> NoError,
   devices |-> <<>>,
   isAudioMuted |-> FALSE,
   isVideoMuted |-> FALSE]

\* a suspended invocation: the handler, the await it is at, and its local
\* isAlreadyStreaming (line 256)
NoCall == [op |-> "none", pc |-> "none", isAlreadyStreaming |-> FALSE]
\* the step taken last: the handler called or the host's answer (op), the
\* constraints argument of the call (arg), the constraints sent to
\* getUserMedia (sent), the invocation suspended or resumed (call), the value
\* returned (ret: a stream, 0 for null, -1 while the promise is pending; list:
\* the devices), the values written to the two request cells, in order, and
\* for a track event the kind of the track
Step(name) ==
  [op |-> name, arg |-> EmptyObj, sent |-> EmptyObj, call |-> NoCall, ret |-> 0,
   list |-> <<>>, gsr |-> <<>>, gmdr |-> <<>>, kind |-> ""]

\* ------------------------------------------------------------- tracks
\* a track: enabled and readyState; whether the hook's default 'ended' and
\* 'mute' listeners are on it (onended, onmute); whether the caller's listener
\* fn is on it for 'ended' and for 'mute' (fnended, fnmute); whether
\* track.stop() was called on it (stopped)
NewTrack ==
  [enabled |-> TRUE, readyState |-> "live", onended |-> FALSE, onmute |-> FALSE,
   fnended |-> FALSE, fnmute |-> FALSE, stopped |-> FALSE]
NewStream(a, v) == [audio |-> [i \in 1..a |-> NewTrack], video |-> [i \in 1..v |-> NewTrack]]
getTracks(ms) == ms.audio \o ms.video
Live(ms) == \E i \in 1..Len(getTracks(ms)) : getTracks(ms)[i].readyState = "live"

\* <<audio tracks, video tracks>> of the streams getUserMedia resolves to; it
\* never resolves to a stream without tracks
Shapes == { s \in (0..MaxTracks) \X (0..MaxTracks) : s[1] + s[2] \in 1..MaxTracks }

InitHook ==
  /\ isSupported \in BOOLEAN
  /\ shape \in Shapes
  /\ queue \in { InitialCells(props) : props \in Props }
  /\ mediaDeviceConstraints = queue.mediaDeviceConstraints
  /\ isStreaming = queue.isStreaming
  /\ stream = 0
  /\ handles = <<>>
  /\ gumCalls = 0
  /\ calls = <<>>
  /\ lastOp = Step("init")

Init == InitHook /\ mBase = EmptyObj /\ mOver = EmptyObj /\ mOut = EmptyObj

\* a render: the queued updates become the state the handlers see
Render ==
  /\ <<queue.mediaDeviceConstraints, queue.isStreaming>> # cells
  /\ mediaDeviceConstraints' = queue.mediaDeviceConstraints
  /\ isStreaming' = queue.isStreaming
  /\ lastOp' = Step("render")
  /\ UNCHANGED <<env, queue, host, calls, mvars>>


\* ------------------------------------------ the default event handlers
\* lines 83-93: each only queues one cell
handleOnVideoMuteEvent(q) == [q EXCEPT !.isVideoMuted = TRUE]
handleOnAudioMuteEvent(q) == [q EXCEPT !.isAudioMuted = TRUE]
handleOnVideoOrAudioEndedEvent_reset(q) ==
  [q EXCEPT !.isStreaming = FALSE, !.getStreamRequest = IDLE]
handleOnVideoOrAudioEndedEvent(q) == [q EXCEPT !.isStreaming = FALSE]

\* ------------------------------------------------------ initiateStream
\* lines 108-109, before the host call
initiateStreamBegin(q) == [q EXCEPT !.error = NoError, !.getStreamRequest = PENDING]
\* lines 115-124: the default listeners on every video and audio track
addDefaultListeners(ms) ==
  [audio |-> [i \in 1..Len(ms.audio) |-> [ms.audio[i] EXCEPT !.onended = TRUE, !.onmute = TRUE]],
   video |-> [i \in 1..Len(ms.video) |-> [ms.video[i] EXCEPT !.onended = TRUE, !.onmute = TRUE]]]
\* line 127
initiateStreamFulfilled(q) == [q EXCEPT !.getStreamRequest = FULFILLED]
\* lines 132-135
initiateStreamRejected_keep(q, e) == [q EXCEPT !.error = e]
initiateStreamRejected(q, e) == [q EXCEPT !.getStreamRequest = REJECTED, !.error = e]

\* a handler suspends at an await: the invocation is kept with its locals
Suspend(op, pc, was) ==
  Append(calls, [op |-> op, pc |-> pc, isAlreadyStreaming |-> was])
Remove(i) == SubSeq(calls, 1, i - 1) \o SubSeq(calls, i + 1, Len(calls))
MayRequest == gumCalls < MaxRequests /\ Len(calls) < MaxInFlight

\* ---------------------------------------------------------------- stop
\* lines 174 and 178: the two early returns
stopRuns == isStreaming /\ stream # 0
removeDefaultListeners_none(ms) == ms
\* lines 181-190
removeDefaultListeners(ms) ==
  [audio |-> [i \in 1..Len(ms.audio) |-> [ms.audio[i] EXCEPT !.onended = FALSE, !.onmute = FALSE]],
   video |-> [i \in 1..Len(ms.video) |-> [ms.video[i] EXCEPT !.onended = FALSE, !.onmute = FALSE]]]
stopTracks_none(ms) == ms
\* line 192
stopTracks(ms) ==
  [audio |-> [i \in 1..Len(ms.audio) |->
                [ms.audio[i] EXCEPT !.readyState = "ended", !.stopped = TRUE]],
   video |-> [i \in 1..Len(ms.video) |->
                [ms.video[i] EXCEPT !.readyState = "ended", !.stopped = TRUE]]]
stopCells_keepRequest(q) == [q EXCEPT !.isStreaming = FALSE, !.error = NoError]
stopCells_keepError(q) == [q EXCEPT !.isStreaming = FALSE, !.getStreamRequest = IDLE]
stopCells_unmute(q) ==
  [q EXCEPT !.isStreaming = FALSE, !.getStreamRequest = IDLE, !.error = NoError,
            !.isAudioMuted = FALSE, !.isVideoMuted = FALSE]
\* lines 196-198
stopCells(q) == [q EXCEPT !.isStreaming = FALSE, !.getStreamRequest = IDLE, !.error = NoError]
\* what stop() leaves in handles, stream.current and the queue q
stopHandles == IF stopRuns
               THEN [handles EXCEPT ![stream] = stopTracks(removeDefaultListeners(@))]
               ELSE handles
stopStream == IF stopRuns THEN 0 ELSE stream
stopQueue(q) == IF stopRuns THEN stopCells(q) ELSE q

stop ==
  /\ handles' = stopHandles
  /\ stream' = stopStream
  /\ queue' = stopQueue(queue)
  /\ lastOp' = [Step("stop") EXCEPT !.ret = IF stopRuns THEN stream ELSE 0,
                                    !.gsr = IF stopRuns THEN <<IDLE>> ELSE <<>>]
  /\ UNCHANGED <<env, cells, gumCalls, calls, mvars>>

\* --------------------------------------------------------------- start
startContinue_always(q, mediaStream) == [q EXCEPT !.isStreaming = TRUE]
\* lines 156-162, with the stream initiateStream returned (0 is null)
startContinue(q, mediaStream) ==
  IF mediaStream # 0 THEN [q EXCEPT !.isStreaming = TRUE] ELSE q

\* line 148
startWhileStreaming ==
  /\ isStreaming
  /\ lastOp' = [Step("start") EXCEPT !.ret = stream]
  /\ UNCHANGED <<env, cells, queue, host, calls, mvars>>

\* lines 150-164 with a stream left in the ref
startReuse ==
  /\ ~isStreaming /\ stream # 0
  /\ queue' = startContinue(queue, stream)
  /\ lastOp' = [Step("start") EXCEPT !.ret = stream]
  /\ UNCHANGED <<env, cells, host, calls, mvars>>

\* lines 150-153: initiateStream(); getUserMedia is absent and the call throws
startUnsupported ==
  /\ ~isStreaming /\ stream = 0 /\ ~isSupported
  /\ queue' = startContinue(initiateStreamRejected(initiateStreamBegin(queue), TypeError), 0)
  /\ lastOp' = [Step("start") EXCEPT !.gsr = <<PENDING, REJECTED>>]
  /\ UNCHANGED <<env, cells, host, calls, mvars>>

\* lines 150-153: initiateStream() up to the await of getUserMedia
startAcquire ==
  /\ ~isStreaming /\ stream = 0 /\ isSupported
  /\ MayRequest
  /\ queue' = initiateStreamBegin(queue)
  /\ gumCalls' = gumCalls + 1
  /\ calls' = Suspend("start", "getUserMedia", FALSE)
  /\ lastOp' = [Step("start") EXCEPT !.sent = mediaDeviceConstraints,
                                     !.call = calls'[Len(calls')],
                                     !.ret = -1, !.gsr = <<PENDING>>]
  /\ UNCHANGED <<env, cells, stream, handles, mvars>>

start == startWhileStreaming \/ startReuse \/ startUnsupported \/ startAcquire

\* ----------------------------------------------------- getMediaDevices
\* lines 218-219
getMediaDevicesBegin(q) == [q EXCEPT !.error = NoError, !.getMediaDevicesRequest = PENDING]
\* lines 226-227
getMediaDevicesFulfilled(q, list) ==
  [q EXCEPT !.devices = list, !.getMediaDevicesRequest = FULFILLED]
getMediaDevicesRejected_noError(q, e) == [q EXCEPT !.getMediaDevicesRequest = REJECTED]
getMediaDevicesRejected_clear(q, e) ==
  [q EXCEPT !.getMediaDevicesRequest = REJECTED, !.error = e, !.devices = <<>>]
\* lines 230-231
getMediaDevicesRejected(q, e) == [q EXCEPT !.getMediaDevicesRequest = REJECTED, !.error = e]

\* lines 211-216
getMediaDevicesUnsupported ==
  /\ ~isSupported
  /\ queue' = getMediaDevicesRejected(queue, NotSupportedError)
  /\ lastOp' = [Step("getMediaDevices") EXCEPT !.gmdr = <<REJECTED>>]
  /\ UNCHANGED <<env, cells, host, calls, mvars>>

\* lines 218-223: no stream in the ref, initiateStream() up to its await
getMediaDevicesAcquire ==
  /\ isSupported /\ stream = 0
  /\ MayRequest
  /\ queue' = initiateStreamBegin(getMediaDevicesBegin(queue))
  /\ gumCalls' = gumCalls + 1
  /\ calls' = Suspend("getMediaDevices", "getUserMedia", FALSE)
  /\ lastOp' = [Step("getMediaDevices") EXCEPT !.sent = mediaDeviceConstraints,
                                               !.call = calls'[Len(calls')],
                                               !.ret = -1, !.gsr = <<PENDING>>,
                                               !.gmdr = <<PENDING>>]
  /\ UNCHANGED <<env, cells, stream, handles, mvars>>

\* lines 218-225: a stream is in the ref, straight to enumerateDevices()
getMediaDevicesEnumerate ==
  /\ isSupported /\ stream # 0
  /\ Len(calls) < MaxInFlight
  /\ queue' = getMediaDevicesBegin(queue)
  /\ calls' = Suspend("getMediaDevices", "enumerateDevices", FALSE)
  /\ lastOp' = [Step("getMediaDevices") EXCEPT !.call = calls'[Len(calls')],
                                               !.ret = -1, !.gmdr = <<PENDING>>]
  /\ UNCHANGED <<env, cells, host, mvars>>

getMediaDevices ==
  getMediaDevicesUnsupported \/ getMediaDevicesAcquire \/ getMediaDevicesEnumerate

\* ---------------------------------------- updateMediaDeviceConstraints
\* line 254
setMediaDeviceConstraints(q, updated) == [q EXCEPT !.mediaDeviceConstraints = updated]
\* line 258
updateReset(q) == [q EXCEPT !.isStreaming = FALSE]
updateContinue_true(q, isAlreadyStreaming) == [q EXCEPT !.isStreaming = TRUE]
\* line 261
updateContinue(q, isAlreadyStreaming) == [q EXCEPT !.isStreaming = isAlreadyStreaming]

\* lines 253-254 with resetStream false
updateOnly(constraints) ==
  /\ queue' = setMediaDeviceConstraints(queue, merge(mediaDeviceConstraints, constraints))
  /\ lastOp' = [Step("updateMediaDeviceConstraints") EXCEPT !.arg = constraints]
  /\ UNCHANGED <<env, cells, host, calls, mvars>>

\* lines 253-260 with resetStream true, up to the await of getUserMedia
updateAndReset(constraints) ==
  LET updated == merge(mediaDeviceConstraints, constraints) IN
  /\ isSupported
  /\ MayRequest
  /\ handles' = stopHandles
  /\ stream' = stopStream
  /\ queue' = initiateStreamBegin(
                 stopQueue(updateReset(setMediaDeviceConstraints(queue, updated))))
  /\ gumCalls' = gumCalls + 1
  /\ calls' = Suspend("updateMediaDeviceConstraints", "getUserMedia", isStreaming)
  /\ lastOp' = [Step("updateMediaDeviceConstraints") EXCEPT
                  !.arg = constraints, !.sent = updated,
                  !.call = calls'[Len(calls')], !.ret = -1,
                  !.gsr = (IF stopRuns THEN <<IDLE>> ELSE <<>>) \o <<PENDING>>]
  /\ UNCHANGED <<env, cells, mvars>>

\* lines 253-261 with resetStream true where getUserMedia is absent: the call
\* throws inside initiateStream, which returns null
updateAndResetUnsupported(constraints) ==
  LET updated == merge(mediaDeviceConstraints, constraints) IN
  /\ ~isSupported
  /\ handles' = stopHandles
  /\ stream' = stopStream
  /\ queue' = updateContinue(
                 initiateStreamRejected(
                   initiateStreamBegin(
                     stopQueue(updateReset(setMediaDeviceConstraints(queue, updated)))),
                   TypeError),
                 isStreaming)
  /\ lastOp' = [Step("updateMediaDeviceConstraints") EXCEPT
                  !.arg = constraints,
                  !.gsr = (IF stopRuns THEN <<IDLE>> ELSE <<>>) \o <<PENDING, REJECTED>>]
  /\ UNCHANGED <<env, cells, gumCalls, calls, mvars>>

updateMediaDeviceConstraints ==
  \E constraints \in Overrides :
    \/ updateOnly(constraints)
    \/ updateAndReset(constraints)
    \/ updateAndResetUnsupported(constraints)

\* updateMediaDeviceConstraints({constraints: {}, resetStream: true})
resetStream ==
  \/ updateAndReset(EmptyObj)
  \/ updateAndResetUnsupported(EmptyObj)

\* ------------------------------------------------- the host's answers
Resume_start(c, q, mediaStream) ==
  IF c.op = "updateMediaDeviceConstraints" THEN updateContinue(q, c.isAlreadyStreaming)
  ELSE startContinue(q, mediaStream)
\* what the suspended handler does with the value initiateStream returned
Resume(c, q, mediaStream) ==
  CASE c.op = "start" -> startContinue(q, mediaStream)
    [] c.op = "updateMediaDeviceConstraints" -> updateContinue(q, c.isAlreadyStreaming)
    [] OTHER -> q
\* getMediaDevices goes on to enumerateDevices(); the others have returned
ResumeCalls(i) ==
  IF calls[i].op = "getMediaDevices"
  THEN [calls EXCEPT ![i].pc = "enumerateDevices"]
  ELSE Remove(i)

\* getUserMedia resolves (line 112); lines 115-130
getUserMediaResolved(i) ==
  /\ calls[i].pc = "getUserMedia"
  /\ handles' = Append(handles, addDefaultListeners(NewStream(shape[1], shape[2])))
  /\ stream' = Len(handles')
  /\ queue' = Resume(calls[i], initiateStreamFulfilled(queue), stream')
  /\ calls' = ResumeCalls(i)
  /\ lastOp' = [Step("getUserMedia.resolved") EXCEPT !.call = calls[i], !.ret = stream',
                                                     !.gsr = <<FULFILLED>>]
  /\ UNCHANGED <<env, cells, gumCalls, mvars>>

\* getUserMedia rejects; lines 131-137
getUserMediaRejected(i) ==
  /\ calls[i].pc = "getUserMedia"
  /\ queue' = Resume(calls[i], initiateStreamRejected(queue, GetUserMediaError), 0)
  /\ calls' = ResumeCalls(i)
  /\ lastOp' = [Step("getUserMedia.rejected") EXCEPT !.call = calls[i],
                                                     !.gsr = <<REJECTED>>]
  /\ UNCHANGED <<env, cells, host, mvars>>

\* enumerateDevices resolves (line 225); lines 226-228
enumerateDevicesResolved(i, list) ==
  /\ calls[i].pc = "enumerateDevices"
  /\ queue' = getMediaDevicesFulfilled(queue, list)
  /\ calls' = Remove(i)
  /\ lastOp' = [Step("enumerateDevices.resolved") EXCEPT !.call = calls[i], !.list = list,
                                                         !.gmdr = <<FULFILLED>>]
  /\ UNCHANGED <<env, cells, host, mvars>>

\* enumerateDevices rejects; lines 229-233
enumerateDevicesRejected(i) ==
  /\ calls[i].pc = "enumerateDevices"
  /\ queue' = getMediaDevicesRejected(queue, EnumerateDevicesError)
  /\ calls' = Remove(i)
  /\ lastOp' = [Step("enumerateDevices.rejected") EXCEPT !.call = calls[i],
                                                         !.gmdr = <<REJECTED>>]
  /\ UNCHANGED <<env, cells, host, mvars>>

\* the host answers a getUserMedia call
HostStream ==
  \E i \in 1..Len(calls) :
    \/ getUserMediaResolved(i)
    \/ getUserMediaRejected(i)

\* the host answers an enumerateDevices call
HostDevices ==
  \E i \in 1..Len(calls) :
    \/ \E list \in DeviceLists : enumerateDevicesResolved(i, list)
    \/ enumerateDevicesRejected(i)

\* the host answers an enumerateDevices call, with any of the longer lists too
HostDevicesMore ==
  \E i \in 1..Len(calls) :
    \/ \E list \in MoreDeviceLists : enumerateDevicesResolved(i, list)
    \/ enumerateDevicesRejected(i)

\* ---------------------------------------------------------------- mute
setEnabled_first(ms, kind, en) ==
  [ms EXCEPT ![kind] = [i \in 1..Len(ms[kind]) |->
     IF i = 1 THEN [ms[kind][i] EXCEPT !.enabled = en] ELSE ms[kind][i]]]
\* t.enabled = en on every track of one kind (lines 274, 287, 300, 313)
setEnabled(ms, kind, en) ==
  [ms EXCEPT ![kind] = [i \in 1..Len(ms[kind]) |-> [ms[kind][i] EXCEPT !.enabled = en]]]
\* lines 275, 288
setIsAudioMuted(q, b) == [q EXCEPT !.isAudioMuted = b]
\* lines 301, 314
setIsVideoMuted(q, b) == [q EXCEPT !.isVideoMuted = b]

Mute_whenStreaming(name, kind, en) ==
  /\ handles' = IF ~isStreaming \/ stream = 0 THEN handles
                ELSE [handles EXCEPT ![stream] = setEnabled(@, kind, en)]
  /\ queue' = IF ~isStreaming THEN queue
              ELSE IF kind = "audio" THEN setIsAudioMuted(queue, ~en)
              ELSE setIsVideoMuted(queue, ~en)
  /\ lastOp' = Step(name)
  /\ UNCHANGED <<env, cells, stream, gumCalls, calls, mvars>>
\* lines 270-315: the early return, then the tracks and the flag
Mute(name, kind, en) ==
  /\ handles' = IF stream = 0 THEN handles
                ELSE [handles EXCEPT ![stream] = setEnabled(@, kind, en)]
  /\ queue' = IF stream = 0 THEN queue
              ELSE IF kind = "audio" THEN setIsAudioMuted(queue, ~en)
              ELSE setIsVideoMuted(queue, ~en)
  /\ lastOp' = Step(name)
  /\ UNCHANGED <<env, cells, stream, gumCalls, calls, mvars>>

muteAudio == Mute("muteAudio", "audio", FALSE)
unmuteAudio == Mute("unmuteAudio", "audio", TRUE)
muteVideo == Mute("muteVideo", "video", FALSE)
unmuteVideo == Mute("unmuteVideo", "video", TRUE)

\* -------------------------------------------------- the host's events
\* the host ends a live track and fires 'ended' on it
trackEnded(h, kind, i) ==
  /\ handles[h][kind][i].readyState = "live"
  /\ handles' = [handles EXCEPT ![h][kind][i].readyState = "ended"]
  /\ queue' = IF handles[h][kind][i].onended
              THEN handleOnVideoOrAudioEndedEvent(queue) ELSE queue
  /\ lastOp' = [Step("ended") EXCEPT !.ret = h, !.kind = kind]
  /\ UNCHANGED <<env, cells, stream, gumCalls, calls, mvars>>

\* the host fires 'mute' on a live track
trackMuted(h, kind, i) ==
  /\ handles[h][kind][i].readyState = "live"
  /\ queue' = IF ~handles[h][kind][i].onmute THEN queue
              ELSE IF kind = "audio" THEN handleOnAudioMuteEvent(queue)
              ELSE handleOnVideoMuteEvent(queue)
  /\ lastOp' = [Step("mute") EXCEPT !.ret = h, !.kind = kind]
  /\ UNCHANGED <<env, cells, host, calls, mvars>>

Events ==
  \E h \in 1..Len(handles) : \E kind \in {"audio", "video"} :
    \E i \in 1..Len(handles[h][kind]) :
      \/ trackEnded(h, kind, i)
      \/ trackMuted(h, kind, i)

\* A notification the host had queued for a track before stop() stopped it
\* (line 192) is dispatched afterwards, to the listeners then on the track.
releasedTrackEnded(h, kind, i) ==
  /\ handles[h][kind][i].stopped
  /\ queue' = IF handles[h][kind][i].onended
              THEN handleOnVideoOrAudioEndedEvent(queue) ELSE queue
  /\ lastOp' = [Step("ended") EXCEPT !.ret = h, !.kind = kind]
  /\ UNCHANGED <<env, cells, host, calls, mvars>>

releasedTrackMuted(h, kind, i) ==
  /\ handles[h][kind][i].stopped
  /\ queue' = IF ~handles[h][kind][i].onmute THEN queue
              ELSE IF kind = "audio" THEN handleOnAudioMuteEvent(queue)
              ELSE handleOnVideoMuteEvent(queue)
  /\ lastOp' = [Step("mute") EXCEPT !.ret = h, !.kind = kind]
  /\ UNCHANGED <<env, cells, host, calls, mvars>>

ReleasedEvents ==
  \E h \in 1..Len(handles) : \E kind \in {"audio", "video"} :
    \E i \in 1..Len(handles[h][kind]) :
      \/ releasedTrackEnded(h, kind, i)
      \/ releasedTrackMuted(h, kind, i)

\* Every step of the hook and of its host.
\* ------------------------------------------- the caller's listeners
setListener_all(ms, kind, event, on) ==
  [k \in {"audio", "video"} |->
     [i \in 1..Len(ms[k]) |->
        IF event = "ended" THEN [ms[k][i] EXCEPT !.fnended = on]
        ELSE [ms[k][i] EXCEPT !.fnmute = on]]]
\* track.addEventListener(event, fn) / track.removeEventListener(event, fn)
\* on every track of one kind (lines 320-322, ..., 362-364)
setListener(ms, kind, event, on) ==
  [ms EXCEPT ![kind] =
     [i \in 1..Len(ms[kind]) |->
        IF event = "ended" THEN [ms[kind][i] EXCEPT !.fnended = on]
        ELSE [ms[kind][i] EXCEPT !.fnmute = on]]]

\* lines 319-367: stream.current?. makes each a no-op on a null ref
Listen(name, kind, event, on) ==
  /\ handles' = IF stream = 0 THEN handles
                ELSE [handles EXCEPT ![stream] = setListener(@, kind, event, on)]
  /\ lastOp' = Step(name)
  /\ UNCHANGED <<env, cells, queue, stream, gumCalls, calls, mvars>>

addVideoEndedEventListener == Listen("addVideoEndedEventListener", "video", "ended", TRUE)
addAudioEndedEventListener == Listen("addAudioEndedEventListener", "audio", "ended", TRUE)
addVideoMuteEventListener == Listen("addVideoMuteEventListener", "video", "mute", TRUE)
addAudioMuteEventListener == Listen("addAudioMuteEventListener", "audio", "mute", TRUE)
removeVideoEndedEventListener == Listen("removeVideoEndedEventListener", "video", "ended", FALSE)
removeAudioEndedEventListener == Listen("removeAudioEndedEventListener", "audio", "ended", FALSE)
removeVideoMuteEventListener == Listen("removeVideoMuteEventListener", "video", "mute", FALSE)
removeAudioMuteEventListener == Listen("removeAudioMuteEventListener", "audio", "mute", FALSE)

Listeners ==
  \/ addVideoEndedEventListener \/ addAudioEndedEventListener
  \/ addVideoMuteEventListener \/ addAudioMuteEventListener
  \/ removeVideoEndedEventListener \/ removeAudioEndedEventListener
  \/ removeVideoMuteEventListener \/ removeAudioMuteEventListener

\* ------------------------------------------------------ specifications
Next ==
  \/ Render
  \/ start
  \/ stop
  \/ getMediaDevices
  \/ updateMediaDeviceConstraints
  \/ HostStream
  \/ HostDevices
  \/ muteAudio \/ unmuteAudio \/ muteVideo \/ unmuteVideo
  \/ Events
  \/ ReleasedEvents
  \/ Listeners

Spec == Init /\ [][Next]_vars

\* The stream lifecycle, the devices and the constraints, on a host whose
\* streams have one audio and one video track, which it neither ends nor
\* mutes, and for a caller that does not mute.
InitLifecycle == Init /\ shape = <<1, 1>>

NextLifecycle ==
  \/ Render
  \/ start
  \/ stop
  \/ getMediaDevices
  \/ updateMediaDeviceConstraints
  \/ HostStream
  \/ HostDevices

SpecLifecycle == InitLifecycle /\ [][NextLifecycle]_vars

\* The stream lifecycle with the mute controls, for a caller that neither
\* enumerates devices nor changes the constraints.
NextMute ==
  \/ Render
  \/ start
  \/ stop
  \/ resetStream
  \/ HostStream
  \/ muteAudio \/ unmuteAudio \/ muteVideo \/ unmuteVideo

SpecMute == Init /\ [][NextMute]_vars

\* The stream lifecycle with the tracks' 'ended' and 'mute' events.
NextEvents ==
  \/ Render
  \/ start
  \/ stop
  \/ resetStream
  \/ HostStream
  \/ Events

SpecEvents == Init /\ [][NextEvents]_vars

\* -------------------------------------------------- merge on its own
\* constraint objects a caller may pass: nested overrides, a boolean in the
\* place of a track's constraints, a field the defaults do not have
MergeOverrides ==
  Overrides \cup
  { EmptyObj,
    Obj([video |-> Leaf("false")]),
    Obj([audio |-> Leaf("true"), video |-> Obj([height |-> Leaf("480")])]),
    Obj([video |-> Obj([frameRate |-> Leaf("30")])]),
    Obj([video |-> Obj([frameRate |-> Obj([max |-> Leaf("30")])])]),
    Obj([audio |-> Obj([echoCancellation |-> Leaf("true")])]),
    Obj([audio |-> EmptyObj]) }
MergeBases == MergeOverrides \cup { defaultMediaDeviceConstraints }

InitMerge ==
  /\ InitHook /\ isSupported /\ shape = <<1, 1>>
  /\ mBase \in MergeBases
  /\ mOver \in MergeOverrides
  /\ mOut = EmptyObj

\* merge(mBase, mOver), as at lines 43 and 253
Merge ==
  /\ lastOp.op = "init"
  /\ mOut' = merge(mBase, mOver)
  /\ lastOp' = Step("merge")
  /\ UNCHANGED <<env, cells, queue, host, calls, mBase, mOver>>

NextMerge == Merge

SpecMerge == InitMerge /\ [][NextMerge]_vars

\* The caller's controls on one audio and one video track, for a caller that
\* leaves the constraints alone: start, stop, device enumeration and the four
\* mute operations.
NextControls ==
  \/ Render
  \/ start
  \/ stop
  \/ getMediaDevices
  \/ HostStream
  \/ HostDevices
  \/ muteAudio \/ unmuteAudio \/ muteVideo \/ unmuteVideo

SpecControls == InitLifecycle /\ [][NextControls]_vars

\* start and stop with a caller that adds its own track listeners.
NextListeners ==
  \/ Render
  \/ start
  \/ stop
  \/ HostStream
  \/ addVideoEndedEventListener \/ addAudioEndedEventListener
  \/ addVideoMuteEventListener \/ addAudioMuteEventListener

SpecListeners == Init /\ [][NextListeners]_vars

\* Every operation of the hook on one audio and one video track, with the
\* host's answers and the tracks' events, for a caller that changes the
\* constraints only by a reset with none.
NextHook ==
  \/ Render
  \/ start
  \/ stop
  \/ getMediaDevices
  \/ resetStream
  \/ HostStream
  \/ HostDevices
  \/ muteAudio \/ unmuteAudio \/ muteVideo \/ unmuteVideo
  \/ Events

SpecHook == InitLifecycle /\ [][NextHook]_vars

\* start, stop and reset with the tracks' events, on a host that may still
\* dispatch a notification of a track after stop() has stopped it.
NextRelease ==
  \/ Render
  \/ start
  \/ stop
  \/ resetStream
  \/ HostStream
  \/ Events
  \/ ReleasedEvents

SpecRelease == Init /\ [][NextRelease]_vars

\* Device enumeration on its own, for a caller that calls getMediaDevices()
\* and nothing else, with a host free in the lists it answers.
NextDevices ==
  \/ getMediaDevices
  \/ HostStream
  \/ HostDevicesMore

SpecDevices == InitLifecycle /\ [][NextDevices]_vars

\* SpecLifecycle with the host answering every getUserMedia call it was sent
FairLifecycle == SpecLifecycle /\ WF_vars(HostStream)

\* ================================================================ claims
\* The value a cell has for an observer is the queued one: what the next
\* render shows.  A call is made "while" a cell has a value when that is the
\* value of the last render, the one the handler called reads.

LiveHandles == { h \in 1..Len(handles) : Live(handles[h]) }
AllEnded(ms) == \A i \in 1..Len(getTracks(ms)) : getTracks(ms)[i].readyState = "ended"

\* C1: a start() issued while the acquisition request state is Pending
\* issues no host capture request (two start() calls in succession issue
\* exactly one).
C1_StartWhilePendingIssuesNoRequest ==
  [][(lastOp'.op = "start" /\ queue.getStreamRequest = PENDING)
       => gumCalls' = gumCalls]_vars

\* C2: at most one handle obtained from the host is live (has a track that
\* was never stopped) in every reachable state.
C2_AtMostOneLiveHandle == Cardinality(LiveHandles) <= 1

\* C3: stop() that released a handle, followed immediately by start(), makes
\* start() acquire: it issues a host request and its promise stays pending
\* for the new handle, instead of returning at once.
C3_StopThenStartAcquires ==
  [][(lastOp.op = "stop" /\ lastOp.ret # 0 /\ lastOp'.op = "start")
       => (lastOp'.ret = -1 /\ gumCalls' = gumCalls + 1)]_vars

\* the tracks of all handles that differ between the two states of a step
ChangedTracks ==
  { t \in { <<h, k, i>> \in (1..Len(handles)) \X {"audio", "video"} \X (1..MaxTracks) :
              i <= Len(handles[h][k]) } :
      handles'[t[1]][t[2]][t[3]] # handles[t[1]][t[2]][t[3]] }

\* C4: when 'ended' fires on a track of the held handle, the streaming flag
\* becomes false and nothing else changes: the handle stays held, no other
\* track changes, and the device list, the mute flags, both request states,
\* the error and the stored constraints stay as they were.
C4_EndedOnlyClearsStreamingFlag ==
  [][(lastOp'.op = "ended" /\ stream # 0 /\ lastOp'.ret = stream)
       => /\ queue' = [queue EXCEPT !.isStreaming = FALSE]
          /\ stream' = stream
          /\ Len(handles') = Len(handles)
          /\ Cardinality(ChangedTracks) = 1
          /\ \A t \in ChangedTracks :
               /\ t[1] = stream
               /\ handles'[t[1]][t[2]][t[3]] =
                    [handles[t[1]][t[2]][t[3]] EXCEPT !.readyState = "ended"]
          /\ UNCHANGED <<cells, calls, gumCalls>>]_vars

\* one track of the held handle has ended, another is live, the handle is
\* still held and the flag went from true (as rendered) to false
C4_Witness ==
  /\ lastOp.op = "ended" /\ stream # 0 /\ lastOp.ret = stream
  /\ Live(handles[stream]) /\ ~AllEnded(handles[stream])
  /\ \E i \in 1..Len(getTracks(handles[stream])) :
       getTracks(handles[stream])[i].readyState = "ended"
  /\ isStreaming /\ ~queue.isStreaming
  /\ queue.getStreamRequest = FULFILLED

MuteOps == {"muteAudio", "unmuteAudio", "muteVideo", "unmuteVideo"}
KindOf(name) == IF name \in {"muteAudio", "unmuteAudio"} THEN "audio" ELSE "video"
MutedFlag(q, kind) == IF kind = "audio" THEN q.isAudioMuted ELSE q.isVideoMuted
AllEnabled(ms, kind, en) == \A i \in 1..Len(ms[kind]) : ms[kind][i].enabled = en

\* C5: with a handle held, a mute operation leaves every track of its kind
\* disabled and the kind's mute flag true, an unmute operation leaves every
\* track of its kind enabled and the flag false, whatever the state before
\* (so mute then unmute restores enabled = true and flag = false, for 0, 1 or
\* N tracks), and repeating any of the four operations changes nothing.
C5_MuteUnmuteSymmetricIdempotent ==
  [][/\ (lastOp'.op \in MuteOps /\ stream # 0)
          => LET kind == KindOf(lastOp'.op)
                 en == lastOp'.op \in {"unmuteAudio", "unmuteVideo"} IN
             /\ AllEnabled(handles'[stream], kind, en)
             /\ MutedFlag(queue', kind) = ~en
             /\ stream' = stream
     /\ (lastOp.op \in MuteOps /\ lastOp'.op = lastOp.op)
          => (handles' = handles /\ queue' = queue /\ stream' = stream)
     /\ (lastOp.op = "muteAudio" /\ lastOp'.op = "unmuteAudio" /\ stream # 0)
          => (AllEnabled(handles'[stream], "audio", TRUE) /\ ~queue'.isAudioMuted)
     /\ (lastOp.op = "muteVideo" /\ lastOp'.op = "unmuteVideo" /\ stream # 0)
          => (AllEnabled(handles'[stream], "video", TRUE) /\ ~queue'.isVideoMuted)
    ]_vars

\* muteAudio has just disabled all N audio tracks of the held handle
C5_Witness ==
  /\ lastOp.op = "muteAudio" /\ stream # 0
  /\ Len(handles[stream].audio) = MaxTracks
  /\ AllEnabled(handles[stream], "audio", FALSE)
  /\ queue.isAudioMuted

IsUpdate(c) == c.op = "updateMediaDeviceConstraints"

C7_ResetRestoresStreamingFlag ==
  [][/\ (lastOp'.op = "updateMediaDeviceConstraints" /\ lastOp'.gsr # <<>>)
          => /\ (lastOp'.ret = -1 => lastOp'.call.isAlreadyStreaming = isStreaming)
             /\ (~isStreaming => ~queue'.isStreaming)
     /\ (lastOp'.op \in {"getUserMedia.resolved", "getUserMedia.rejected"}
           /\ IsUpdate(lastOp'.call) /\ ~lastOp'.call.isAlreadyStreaming)
          => ~queue'.isStreaming
     /\ (lastOp'.op = "getUserMedia.resolved" /\ IsUpdate(lastOp'.call)
           /\ lastOp'.call.isAlreadyStreaming)
          => queue'.isStreaming
    ]_vars

\* a reset issued while not streaming has resolved with a handle and the
\* flag is still false
C7_Witness ==
  /\ lastOp.op = "getUserMedia.resolved" /\ IsUpdate(lastOp.call)
  /\ ~lastOp.call.isAlreadyStreaming
  /\ stream # 0 /\ Live(handles[stream])
  /\ ~queue.isStreaming /\ ~isStreaming

IsGetMediaDevices(c) == c.op = "getMediaDevices"

RECURSIVE Leaves(_, _)
Leaves(x, prefix) ==
  IF x.t = "leaf" THEN { <<prefix, x.v>> }
  ELSE UNION { Leaves(x.f[k], Append(prefix, k)) : k \in DOMAIN x.f }
\* the paths below the root at which x holds an object
RECURSIVE ObjPaths(_, _)
ObjPaths(x, prefix) ==
  IF x.t = "leaf" THEN {}
  ELSE UNION { (IF x.f[k].t = "obj" THEN { Append(prefix, k) } ELSE {})
                 \cup ObjPaths(x.f[k], Append(prefix, k)) : k \in DOMAIN x.f }
LeafPaths(x) == { l[1] : l \in Leaves(x, <<>>) }
IsPrefix(p, q) == Len(p) <= Len(q) /\ SubSeq(q, 1, Len(p)) = p
\* O puts a value of its own where base has the leaf at path p: a scalar at
\* p or above it, or an object at p
Replaces(O, p) ==
  \/ \E m \in LeafPaths(O) : IsPrefix(m, p)
  \/ p \in ObjPaths(O, <<>>)

\* audio.deviceId = "", video.facingMode = "user", video.width = 1280,
\* video.height = 720, video.frameRate = {ideal: 60, min: 10},
\* video.deviceId = ""
DocumentedDefaults ==
  { << <<"audio", "deviceId">>, "" >>,
    << <<"video", "facingMode">>, "user" >>,
    << <<"video", "width">>, "1280" >>,
    << <<"video", "height">>, "720" >>,
    << <<"video", "frameRate", "ideal">>, "60" >>,
    << <<"video", "frameRate", "min">>, "10" >>,
    << <<"video", "deviceId">>, "" >> }

\* C9 as stated: merge(base, O) has every leaf field of O and every leaf
\* field of base whose path is not the path of a leaf field of O.
C9_KeepsEveryBaseLeafNotInO ==
  lastOp.op = "merge" =>
    /\ Leaves(mOver, <<>>) \subseteq Leaves(mOut, <<>>)
    /\ \A l \in Leaves(mBase, <<>>) :
         l[1] \notin LeafPaths(mOver) => l \in Leaves(mOut, <<>>)

\* C9, amended: merge(base, O) has every leaf field of O, has every leaf
\* field of base except those O replaces (O holds a scalar at the field's
\* path or above it, or an object at the field's path), and has no other
\* leaf field; base and O are as they were; and the constraints stored at
\* construction with no override are the documented defaults.
C9_MergeDeep ==
  [][lastOp'.op = "merge" =>
       /\ Leaves(mOver, <<>>) \subseteq Leaves(mOut', <<>>)
       /\ \A l \in Leaves(mBase, <<>>) :
            l \in Leaves(mOut', <<>>) <=> (~Replaces(mOver, l[1]) \/ l \in Leaves(mOver, <<>>))
       /\ Leaves(mOut', <<>>) \subseteq Leaves(mBase, <<>>) \cup Leaves(mOver, <<>>)
       /\ mBase' = mBase /\ mOver' = mOver
       /\ Leaves(queue.mediaDeviceConstraints, <<>>) = DocumentedDefaults
    ]_vars

\* the defaults merged with {audio: {deviceId}, video: {frameRate: {min}}}:
\* two leaves replaced two levels apart, the five others kept
C9_Witness ==
  /\ lastOp.op = "merge"
  /\ mBase = defaultMediaDeviceConstraints
  /\ mOver = Obj([audio |-> Obj([deviceId |-> Leaf("mic2")]),
                  video |-> Obj([frameRate |-> Obj([min |-> Leaf("5")])])])
  /\ Leaves(mOut, <<>>) =
       (DocumentedDefaults \ { << <<"audio", "deviceId">>, "" >>,
                               << <<"video", "frameRate", "min">>, "10" >> })
       \cup { << <<"audio", "deviceId">>, "mic2" >>,
              << <<"video", "frameRate", "min">>, "5" >> }

\* a request state may follow another: Pending after Idle, Fulfilled or
\* Rejected; Fulfilled or Rejected after Pending; Idle after any
LegalMove(a, b) ==
  \/ b = IDLE
  \/ b = PENDING /\ a \in {IDLE, FULFILLED, REJECTED}
  \/ b \in {FULFILLED, REJECTED} /\ a = PENDING
\* every change of value along the sequence of values written is legal
LegalMoves(seq) ==
  \A i \in 1..(Len(seq) - 1) : seq[i] = seq[i + 1] \/ LegalMove(seq[i], seq[i + 1])

\* C10: in every step, the values written to getStreamRequest and to
\* getMediaDevicesRequest, starting from the value each had, move to Pending
\* only from Idle, Fulfilled or Rejected and to Fulfilled or Rejected only
\* from Pending.
C10_RequestStatesNeverSkipPending ==
  [][/\ LegalMoves(<<queue.getStreamRequest>> \o lastOp'.gsr)
     /\ LegalMoves(<<queue.getMediaDevicesRequest>> \o lastOp'.gmdr)]_vars

\* the getUserMedia calls the host has not answered yet
InFlight == { i \in 1..Len(calls) : calls[i].pc = "getUserMedia" }

\* C11: getStreamRequest is never left at Pending: with no getUserMedia call
\* in flight it is not Pending, and, the host answering every call, a
\* Pending getStreamRequest is eventually Fulfilled, Rejected or Idle.
C11_NeverStuckPending ==
  /\ [](InFlight = {} => queue.getStreamRequest # PENDING)
  /\ (queue.getStreamRequest = PENDING) ~> (queue.getStreamRequest # PENDING)

\* a getUserMedia call was rejected, none is in flight, and the request
\* state is Rejected with the error recorded
C11_Witness ==
  /\ lastOp.op = "getUserMedia.rejected"
  /\ InFlight = {} /\ gumCalls >= 1
  /\ queue.getStreamRequest = REJECTED
  /\ queue.error = GetUserMediaError

NoListeners(ms) ==
  \A i \in 1..Len(getTracks(ms)) : ~getTracks(ms)[i].onended /\ ~getTracks(ms)[i].onmute

\* C12: stop() called while not streaming, or with no stream in the ref,
\* changes nothing; called while streaming with a stream in the ref it leaves
\* every track of that stream stopped and without the default listeners, the
\* ref null, isStreaming false, getStreamRequest Idle and the error null, and
\* it leaves the devices, both mute flags, getMediaDevicesRequest, the stored
\* constraints, the other streams and the pending calls as they were.
C12_StopReleasesOrIsNoOp ==
  [][lastOp'.op = "stop" =>
       IF isStreaming /\ stream # 0
       THEN /\ AllEnded(handles'[stream]) /\ NoListeners(handles'[stream])
            /\ stream' = 0
            /\ lastOp'.ret = stream
            /\ queue' = [queue EXCEPT !.isStreaming = FALSE,
                                      !.getStreamRequest = IDLE,
                                      !.error = NoError]
            /\ Len(handles') = Len(handles)
            /\ \A h \in 1..Len(handles) : h # stream => handles'[h] = handles[h]
            /\ UNCHANGED <<cells, calls, gumCalls>>
       ELSE UNCHANGED <<queue, cells, host, calls>>
    ]_vars

\* stop() has released the stream of a caller that had enumerated devices
\* and muted the audio
C12_Witness ==
  /\ lastOp.op = "stop" /\ lastOp.ret # 0 /\ stream = 0
  /\ AllEnded(handles[lastOp.ret])
  /\ ~queue.isStreaming /\ queue.getStreamRequest = IDLE /\ queue.error = NoError
  /\ queue.isAudioMuted /\ queue.devices # <<>>
  /\ queue.getMediaDevicesRequest = FULFILLED

IsStart(c) == c.op = "start"

\* C13: start() while streaming with a stream in the ref calls no
\* getUserMedia and returns that stream; start() while not streaming with a
\* stream in the ref calls no getUserMedia, returns that stream and sets
\* isStreaming; start() with no stream in the ref (getUserMedia present)
\* calls getUserMedia once, and sets isStreaming when the call resolves and
\* not when it rejects.
C13_StartCases ==
  [][/\ (lastOp'.op = "start" /\ stream # 0)
          => /\ gumCalls' = gumCalls
             /\ lastOp'.ret = stream
             /\ stream' = stream
             /\ (~isStreaming => queue'.isStreaming)
     /\ (lastOp'.op = "start" /\ stream = 0 /\ isSupported)
          => /\ gumCalls' = gumCalls + 1
             /\ lastOp'.ret = -1
             /\ queue'.isStreaming = queue.isStreaming
     /\ (lastOp'.op = "getUserMedia.resolved" /\ IsStart(lastOp'.call))
          => queue'.isStreaming
     /\ (lastOp'.op = "getUserMedia.rejected" /\ IsStart(lastOp'.call))
          => queue'.isStreaming = queue.isStreaming
    ]_vars

\* C14: when getUserMedia rejects, initiateStream sets getStreamRequest to
\* Rejected and the error to the failure, returns null, leaves the ref and
\* the streams as they were and calls getUserMedia no further; start and
\* getMediaDevices then leave isStreaming as it was (after an awaited reset
\* it is what line 261 sets: the value remembered at the call). The same holds
\* for a start() that fails at once because getUserMedia is absent.
C14_FailedAcquisition ==
  [][/\ (lastOp'.op = "getUserMedia.rejected")
          => /\ [queue' EXCEPT !.isStreaming = queue.isStreaming] =
                  [queue EXCEPT !.getStreamRequest = REJECTED,
                                !.error = GetUserMediaError]
             /\ lastOp'.ret = 0
             /\ UNCHANGED <<stream, handles, gumCalls, cells>>
             /\ Cardinality({ i \in 1..Len(calls') : calls'[i].pc = "getUserMedia" })
                  = Cardinality(InFlight) - 1
             /\ queue'.isStreaming =
                  IF IsUpdate(lastOp'.call) THEN lastOp'.call.isAlreadyStreaming
                  ELSE queue.isStreaming
     /\ (lastOp'.op = "start" /\ ~isSupported /\ ~isStreaming /\ stream = 0)
          => /\ queue' = [queue EXCEPT !.getStreamRequest = REJECTED, !.error = TypeError]
             /\ lastOp'.ret = 0
             /\ UNCHANGED <<stream, handles, gumCalls, calls, cells>>
    ]_vars

\* a start() has failed: null returned, Rejected, the error recorded, the
\* flag false, no stream, nothing in flight
C14_Witness ==
  /\ lastOp.op = "getUserMedia.rejected" /\ IsStart(lastOp.call)
  /\ lastOp.ret = 0 /\ stream = 0 /\ gumCalls = 1
  /\ queue.getStreamRequest = REJECTED /\ queue.error = GetUserMediaError
  /\ ~queue.isStreaming /\ calls = <<>>

OtherKind(kind) == IF kind = "audio" THEN "video" ELSE "audio"

\* C17: a mute or unmute operation called with no stream in the ref changes
\* nothing; with a stream in the ref, streaming or not, it sets enabled on
\* every track of its kind of that stream and nothing else of those tracks,
\* sets the mute flag of its kind to match, and leaves the tracks and the flag
\* of the other kind, the other streams, the ref, isStreaming, both request
\* states and every other cell as they were.
C17_MuteFrame ==
  [][lastOp'.op \in MuteOps =>
       LET kind == KindOf(lastOp'.op)
           en == lastOp'.op \in {"unmuteAudio", "unmuteVideo"} IN
       IF stream = 0
       THEN UNCHANGED <<queue, cells, host, calls>>
       ELSE /\ Len(handles') = Len(handles)
            /\ \A h \in 1..Len(handles) : h # stream => handles'[h] = handles[h]
            /\ handles'[stream][OtherKind(kind)] = handles[stream][OtherKind(kind)]
            /\ Len(handles'[stream][kind]) = Len(handles[stream][kind])
            /\ \A i \in 1..Len(handles[stream][kind]) :
                 handles'[stream][kind][i] = [handles[stream][kind][i] EXCEPT !.enabled = en]
            /\ queue' = IF kind = "audio" THEN [queue EXCEPT !.isAudioMuted = ~en]
                        ELSE [queue EXCEPT !.isVideoMuted = ~en]
            /\ UNCHANGED <<stream, gumCalls, calls, cells>>
    ]_vars

\* muteVideo() on a stream held while not streaming: the video track is
\* disabled and flagged, the audio track and flag are untouched
C17_Witness ==
  /\ lastOp.op = "muteVideo" /\ stream # 0
  /\ ~isStreaming /\ ~queue.isStreaming
  /\ Len(handles[stream].video) >= 1 /\ Len(handles[stream].audio) >= 1
  /\ AllEnabled(handles[stream], "video", FALSE) /\ queue.isVideoMuted
  /\ AllEnabled(handles[stream], "audio", TRUE) /\ ~queue.isAudioMuted

AddListenerOps == {"addVideoEndedEventListener", "addAudioEndedEventListener",
                   "addVideoMuteEventListener", "addAudioMuteEventListener"}
ListenerKind(name) ==
  IF name \in {"addVideoEndedEventListener", "addVideoMuteEventListener"}
  THEN "video" ELSE "audio"
ListenerEvent(name) ==
  IF name \in {"addVideoEndedEventListener", "addAudioEndedEventListener"}
  THEN "ended" ELSE "mute"
\* whether the caller's listener for the event is on the track
HasListener(track, event) == IF event = "ended" THEN track.fnended ELSE track.fnmute
NoCallerListeners(ms) ==
  \A i \in 1..Len(getTracks(ms)) : ~getTracks(ms)[i].fnended /\ ~getTracks(ms)[i].fnmute

\* C18: an add-listener call made with no stream in the ref changes nothing,
\* and a stream acquired later carries no caller listener on any track; made
\* with a stream in the ref it puts the listener, for its event, on every
\* track of its kind of that stream, and changes no track of the other kind,
\* no other stream and nothing else. No other step attaches a caller
\* listener.
C18_ListenersOnlyOnCurrentTracks ==
  [][/\ (lastOp'.op \in AddListenerOps /\ stream = 0)
          => UNCHANGED <<queue, cells, host, calls>>
     /\ (lastOp'.op \in AddListenerOps /\ stream # 0)
          => LET kind == ListenerKind(lastOp'.op)
                 event == ListenerEvent(lastOp'.op) IN
             /\ Len(handles') = Len(handles)
             /\ \A h \in 1..Len(handles) : h # stream => handles'[h] = handles[h]
             /\ handles'[stream][OtherKind(kind)] = handles[stream][OtherKind(kind)]
             /\ Len(handles'[stream][kind]) = Len(handles[stream][kind])
             /\ \A i \in 1..Len(handles[stream][kind]) :
                  /\ HasListener(handles'[stream][kind][i], event)
                  /\ handles'[stream][kind][i] =
                       IF event = "ended"
                       THEN [handles[stream][kind][i] EXCEPT !.fnended = TRUE]
                       ELSE [handles[stream][kind][i] EXCEPT !.fnmute = TRUE]
             /\ UNCHANGED <<queue, cells, stream, gumCalls, calls>>
     /\ (lastOp'.op = "getUserMedia.resolved")
          => NoCallerListeners(handles'[stream'])
     /\ (lastOp'.op \notin AddListenerOps)
          => \A h \in 1..Len(handles) : \A k \in {"audio", "video"} :
               \A i \in 1..Len(handles[h][k]) :
                 /\ handles'[h][k][i].fnended => handles[h][k][i].fnended
                 /\ handles'[h][k][i].fnmute => handles[h][k][i].fnmute
    ]_vars

\* the 'ended' listener was added on the second stream's video tracks: they
\* carry it, the audio track does not, and the first stream carries none
C18_Witness ==
  /\ lastOp.op = "addVideoEndedEventListener" /\ stream = 2
  /\ Len(handles[2].video) >= 1 /\ Len(handles[2].audio) >= 1
  /\ \A i \in 1..Len(handles[2].video) : handles[2].video[i].fnended
  /\ \A i \in 1..Len(handles[2].audio) : ~handles[2].audio[i].fnended
  /\ NoCallerListeners(handles[1])

\* C19: isAudioMuted becomes true only in muteAudio() or in a 'mute' event
\* of an audio track, and becomes false only in unmuteAudio() called with a
\* stream in the ref; likewise isVideoMuted with muteVideo(), a 'mute' event
\* of a video track and unmuteVideo(). No other step changes either flag.
C19_MuteFlagChanges ==
  [][/\ (~queue.isAudioMuted /\ queue'.isAudioMuted)
          => \/ lastOp'.op = "muteAudio"
             \/ lastOp'.op = "mute" /\ lastOp'.kind = "audio"
     /\ (queue.isAudioMuted /\ ~queue'.isAudioMuted)
          => (lastOp'.op = "unmuteAudio" /\ stream # 0)
     /\ (~queue.isVideoMuted /\ queue'.isVideoMuted)
          => \/ lastOp'.op = "muteVideo"
             \/ lastOp'.op = "mute" /\ lastOp'.kind = "video"
     /\ (queue.isVideoMuted /\ ~queue'.isVideoMuted)
          => (lastOp'.op = "unmuteVideo" /\ stream # 0)
    ]_vars

\* stop() has released the stream and both mute flags are still true
C19_Witness ==
  /\ lastOp.op = "stop" /\ lastOp.ret # 0 /\ stream = 0
  /\ queue.isAudioMuted /\ queue.isVideoMuted
  /\ ~queue.isStreaming

\* C20: every step that calls getUserMedia leaves getStreamRequest Pending
\* and the error null, and while a getUserMedia call is in flight
\* getStreamRequest stays Pending unless stop() runs.
C20_PendingWhileInFlight ==
  [][/\ (gumCalls' = gumCalls + 1)
          => (queue'.getStreamRequest = PENDING /\ queue'.error = NoError)
     /\ (queue.getStreamRequest = PENDING /\ InFlight' # {})
          => (queue'.getStreamRequest = PENDING \/ lastOp'.op = "stop")
    ]_vars

\* every track carries the hook's 'ended' listener and its 'mute' listener
AllListeners(ms) ==
  \A i \in 1..Len(getTracks(ms)) : getTracks(ms)[i].onended /\ getTracks(ms)[i].onmute
\* stop() has stopped every track of the stream
Released(ms) == \A i \in 1..Len(getTracks(ms)) : getTracks(ms)[i].stopped
AnyStopped(ms) == \E i \in 1..Len(getTracks(ms)) : getTracks(ms)[i].stopped

\* C21: the stream an acquisition stores carries the default 'ended' and
\* 'mute' listeners on every audio and video track, and so does the stream in
\* the ref in every state; a stop() that releases a stream leaves every track
\* of it stopped and without the default listeners (no state shows a stopped
\* track that carries one), and no later step puts one back; an 'ended' or
\* 'mute' notification dispatched on a track of a released stream changes
\* neither isStreaming nor a mute flag, nor any other cell.
C21_DefaultListenersFollowTheStream ==
  [][/\ (lastOp'.op = "getUserMedia.resolved")
          => (stream' = Len(handles') /\ AllListeners(handles'[stream']))
     /\ (stream' # 0 => AllListeners(handles'[stream']))
     /\ (lastOp'.op \in {"stop", "updateMediaDeviceConstraints"}
           /\ isStreaming /\ stream # 0)
          => (Released(handles'[stream]) /\ NoListeners(handles'[stream]))
     /\ \A h \in 1..Len(handles') :
          AnyStopped(handles'[h]) => (Released(handles'[h]) /\ NoListeners(handles'[h]))
     /\ (lastOp'.op \in {"ended", "mute"} /\ Released(handles[lastOp'.ret]))
          => UNCHANGED <<queue, cells, host, calls>>
    ]_vars

\* a 'mute' notification was dispatched on a track of the stream stop() had
\* released, while a second stream is held and streaming: the flags stand
C21_Witness ==
  /\ lastOp.op = "mute" /\ lastOp.ret = 1 /\ Released(handles[1])
  /\ stream = 2 /\ AllListeners(handles[2])
  /\ queue.isStreaming /\ isStreaming
  /\ ~queue.isAudioMuted /\ ~queue.isVideoMuted

Elems(seq) == { seq[i] : i \in 1..Len(seq) }
RECURSIVE OfKind(_, _)
\* the devices of one kind, in the order of the list
OfKind(devices, kind) ==
  IF devices = <<>> THEN <<>>
  ELSE (IF Head(devices).kind = kind THEN <<Head(devices)>> ELSE <<>>)
         \o OfKind(Tail(devices), kind)
ThreeKinds == {"audioinput", "audiooutput", "videoinput"}

\* the three lists computed from the stored devices are pairwise disjoint,
\* each is the stored devices of its kind in stored order, and together they
\* hold every stored device of the three kinds
ViewsPartition(devices) ==
  LET views == deviceViews(devices) IN
  /\ views.audioInputDevices = OfKind(devices, "audioinput")
  /\ views.audioOutputDevices = OfKind(devices, "audiooutput")
  /\ views.videoInputDevices = OfKind(devices, "videoinput")
  /\ Elems(views.audioInputDevices) \cap Elems(views.audioOutputDevices) = {}
  /\ Elems(views.audioInputDevices) \cap Elems(views.videoInputDevices) = {}
  /\ Elems(views.audioOutputDevices) \cap Elems(views.videoInputDevices) = {}
  /\ Elems(views.audioInputDevices) \cup Elems(views.audioOutputDevices)
        \cup Elems(views.videoInputDevices)
      = { d \in Elems(devices) : d.kind \in ThreeKinds }
  /\ Len(views.audioInputDevices) + Len(views.audioOutputDevices)
        + Len(views.videoInputDevices)
      = Cardinality({ i \in 1..Len(devices) : devices[i].kind \in ThreeKinds })

\* C22: when enumerateDevices resolves, the stored devices become exactly
\* the list the host answered, whatever was stored, getMediaDevicesRequest
\* becomes Fulfilled and that list is returned; and in every state the three
\* lists computed from the stored devices partition them by kind as
\* ViewsPartition says.
C22_DevicesReplacedAndPartitioned ==
  /\ [](ViewsPartition(queue.devices))
  /\ [][(lastOp'.op = "enumerateDevices.resolved")
          => /\ lastOp'.list \in MoreDeviceLists
             /\ queue' = [queue EXCEPT !.devices = lastOp'.list,
                                       !.getMediaDevicesRequest = FULFILLED]
             /\ Len(calls') = Len(calls) - 1
        ]_vars

\* an enumeration has stored a list with two microphones and two cameras
\* apart from each other: each of the three lists computed from it is in
\* stored order
C22_Witness ==
  /\ lastOp.op = "enumerateDevices.resolved"
  /\ queue.devices = <<Mic2, Cam, Mic, Spk, Cam2>>
  /\ queue.getMediaDevicesRequest = FULFILLED
  /\ deviceViews(queue.devices) =
       [audioInputDevices |-> <<Mic2, Mic>>, audioOutputDevices |-> <<Spk>>,
        videoInputDevices |-> <<Cam, Cam2>>]
  /\ gumCalls = 1 /\ calls = <<>>

\* C23: in every state, isStreaming is true only if a stream is in the ref.
C23_StreamingOnlyWithHandle == queue.isStreaming => stream # 0

Settled == {"getUserMedia.resolved", "getUserMedia.rejected"}
\* the step sets isStreaming, which was false
Raised == ~queue.isStreaming /\ queue'.isStreaming

\* C24: isStreaming goes from false to true only in a step of start() or in
\* the completion of a reset that was called while isStreaming was true; and
\* the completion of a reset does not set it when a stop() call or an 'ended'
\* event came while the reset's getUserMedia call was in flight.
C24_FlagRaisedOnlyDeliberately ==
  [][/\ Raised
          => \/ lastOp'.op = "start"
             \/ lastOp'.op \in Settled /\ IsStart(lastOp'.call)
             \/ /\ lastOp'.op \in Settled /\ IsUpdate(lastOp'.call)
                /\ lastOp'.call.isAlreadyStreaming
             \/ lastOp'.op = "updateMediaDeviceConstraints" /\ isStreaming
     /\ (lastOp.op \in {"stop", "ended"} /\ lastOp'.op \in Settled
           /\ IsUpdate(lastOp'.call))
          => ~Raised
    ]_vars

\* C25: an 'ended' or 'mute' event of a track of a stream that is not the
\* one in the ref changes neither isStreaming nor a mute flag.
C25_EventsOfOtherStreamsIgnored ==
  [][(lastOp'.op \in {"ended", "mute"} /\ lastOp'.ret # stream)
       => /\ queue'.isStreaming = queue.isStreaming
          /\ queue'.isAudioMuted = queue.isAudioMuted
          /\ queue'.isVideoMuted = queue.isVideoMuted
    ]_vars

\* C26: whenever the stream in the ref has an audio track, isAudioMuted is
\* true exactly when every audio track of it has enabled = false, and
\* likewise isVideoMuted for its video tracks.
C26_MuteFlagsMatchTracks ==
  stream # 0 =>
    \A kind \in {"audio", "video"} :
      Len(handles[stream][kind]) >= 1
        => (MutedFlag(queue, kind) <=> AllEnabled(handles[stream], kind, FALSE))

\* C27: every updateMediaDeviceConstraints call with override O leaves the
\* stored constraints at merge(what was stored, O), so that after O1..On
\* they are merge(...merge(merge(C0, O1), O2)..., On); and every getUserMedia
\* call is sent the constraints stored when the call is made.
C27_NoUpdateLost ==
  [][/\ (lastOp'.op = "updateMediaDeviceConstraints")
          => queue'.mediaDeviceConstraints =
               merge(queue.mediaDeviceConstraints, lastOp'.arg)
     /\ (gumCalls' = gumCalls + 1)
          => lastOp'.sent = queue'.mediaDeviceConstraints
    ]_vars

\* C28: when the getUserMedia call of a getMediaDevices() made with no
\* stream in the ref rejects, getMediaDevices() is over, with
\* getMediaDevicesRequest Rejected and the empty list returned; and no
\* getMediaDevices() that completes with no stream in the ref sets
\* getMediaDevicesRequest to Fulfilled.
C28_NoEnumerationWithoutStream ==
  [][/\ (lastOp'.op = "getUserMedia.rejected" /\ IsGetMediaDevices(lastOp'.call))
          => /\ queue'.getMediaDevicesRequest = REJECTED
             /\ lastOp'.list = <<>>
             /\ Len(calls') = Len(calls) - 1
     /\ (lastOp'.op = "enumerateDevices.resolved" /\ stream = 0)
          => queue'.getMediaDevicesRequest # FULFILLED
    ]_vars

\* C29: in every state, with getStreamRequest Fulfilled a stream is in the
\* ref, and with getStreamRequest Idle none is.
C29_RequestStateAgreesWithRef ==
  /\ (queue.getStreamRequest = FULFILLED => stream # 0)
  /\ (queue.getStreamRequest = IDLE => stream = 0)

\* stop() has released the held stream while another getUserMedia call is in
\* flight: getStreamRequest is Idle and the ref is null
C29_Witness ==
  /\ lastOp.op = "stop" /\ lastOp.ret # 0 /\ Released(handles[lastOp.ret])
  /\ InFlight # {}
  /\ queue.getStreamRequest = IDLE /\ stream = 0

\* C30: in every state in which the error is not null, getStreamRequest or
\* getMediaDevicesRequest is Rejected.
C30_ErrorTiedToRejectedRequest ==
  queue.error # NoError
    => (queue.getStreamRequest = REJECTED \/ queue.getMediaDevicesRequest = REJECTED)
=============================================================================
